---- MODULE Spec2Model ----
(***************************************************************************)
(* Icarus, the maze solver of commands/icarus.go: RunIcarus runs solveMaze  *)
(* a configured number of times against the maze host (daedalus) and then  *)
(* announces it is done.  solveMaze wakes up, builds a fresh solver and     *)
(* alternates chooseDir and moveDir until a move reply carries victory.     *)
(*                                                                         *)
(* The host is the environment.  It owns a grid maze of two rows (or, in    *)
(* RoomSpec, a room of three rows and three columns), walled borders, a    *)
(* start cell and an exit cell.  It answers a request truthfully           *)
(* (the move is accepted through an open passage and rejected at a wall),   *)
(* or the request fails at transport level, a bounded number of times.      *)
(***************************************************************************)
EXTENDS Integers, Sequences, FiniteSets, TLC

\* ------------------------------------------------------------------ bounds
\* Number of cells of the maze grid: the grid has two rows and is filled
\* column by column, from the top.
NumCells == 4
\* Largest value of the configured number of attempts ("times").
MaxTimes == 2
\* Largest number of requests of one run that fail at transport level.
MaxFail == 1
\* Width in bits of the model's signed integers (Go's int is 64 bits wide).
IntBits == 4
\* Largest value a passage counter takes (2 at least): a passage whose
\* counter has reached it is not crossed again.
MaxCount == 3

\* The two rows of the grid, its columns and its cells.
Rows == {0, 1}
MaxX == (NumCells - 1) \div 2
Cols == 0..MaxX
Cells == {c \in Cols \X Rows : 2 * c[1] + c[2] < NumCells}

MaxInt == 2^(IntBits - 1) - 1
MinInt == -(2^(IntBits - 1))
\* Two's complement wrap-around of n + 1.
Inc(n) == IF n = MaxInt THEN MinInt ELSE n + 1

\* Range of the coordinates the solver may believe to be at: one ring of
\* cells around every placement of the grid relative to the start cell.
CoordXs == (-(MaxX + 1))..(MaxX + 1)
CoordYs == (-2)..2

\* --------------------------------------------------------------- mazelib
\* Directions (mazelib.N, S, E, W).
N == 1
S == 2
E == 3
W == 4

Surveys == [Top : BOOLEAN, Right : BOOLEAN, Bottom : BOOLEAN, Left : BOOLEAN]
\* mazelib.Survey{}: the zero value, no wall seen.
ZeroSurvey == [Top |-> FALSE, Right |-> FALSE, Bottom |-> FALSE, Left |-> FALSE]

\* ------------------------------------------------------------ Go map[K]int
EmptyMap == [c \in {} |-> 0]
\* m[k]: a missing key reads as the zero value.
Get(m, k) == IF k \in DOMAIN m THEN m[k] ELSE 0
\* m[k] = v
Put(m, k, v) == [c \in (DOMAIN m) \cup {k} |-> IF c = k THEN v ELSE m[c]]

\* ------------------------------------------------------------- the host
\* A maze: the open passages to the right of a cell (hOpen) and below a
\* cell (vOpen), the start cell and the exit cell.
HEdges == {c \in Cells : <<c[1] + 1, c[2]>> \in Cells}
VEdges == {c \in Cells : <<c[1], c[2] + 1>> \in Cells}
Mazes == [hOpen : SUBSET HEdges, vOpen : SUBSET VEdges, start : Cells, exit : Cells]

Neighbour(c, d) ==
    CASE d = N -> <<c[1], c[2] - 1>>
      [] d = S -> <<c[1], c[2] + 1>>
      [] d = E -> <<c[1] + 1, c[2]>>
      [] d = W -> <<c[1] - 1, c[2]>>

\* Whether the host's maze m has an open passage from cell c in direction d.
Open(m, c, d) ==
    CASE d = N -> <<c[1], c[2] - 1>> \in m.vOpen
      [] d = S -> c \in m.vOpen
      [] d = E -> c \in m.hOpen
      [] d = W -> <<c[1] - 1, c[2]>> \in m.hOpen

\* The survey the host reports for cell c.
LookAround(m, c) ==
    [Top |-> ~Open(m, c, N), Right |-> ~Open(m, c, E),
     Bottom |-> ~Open(m, c, S), Left |-> ~Open(m, c, W)]

RECURSIVE ReachFrom(_, _)
ReachFrom(m, seen) ==
    LET next == seen \cup {n \in Cells : \E c \in seen : \E d \in N..W :
                                Open(m, c, d) /\ Neighbour(c, d) = n}
    IN IF next = seen THEN seen ELSE ReachFrom(m, next)

\* Every cell has an open direction and the exit can be reached from the start.
GoodMaze(m) ==
    /\ \A c \in Cells : \E d \in N..W : Open(m, c, d)
    /\ m.exit \in ReachFrom(m, {m.start})

\* A room: a grid of three rows and three columns with walled borders and
\* one inner wall at most, below a cell, any start cell and the exit in the
\* bottom left corner.
RoomCells == (0..2) \X (0..2)
RoomHEdges == {c \in RoomCells : <<c[1] + 1, c[2]>> \in RoomCells}
RoomVEdges == {c \in RoomCells : <<c[1], c[2] + 1>> \in RoomCells}
RoomWalls == {{}} \cup {{<<"vert", c>>} : c \in RoomVEdges}
RoomMazes ==
    {[hOpen |-> {c \in RoomHEdges : <<"horiz", c>> \notin ws},
      vOpen |-> {c \in RoomVEdges : <<"vert", c>> \notin ws},
      start |-> st, exit |-> <<0, 2>>] : ws \in RoomWalls, st \in RoomCells}

\* Range of the coordinates the solver may believe to be at in a room: one
\* ring of cells around every placement of the room relative to the start
\* cell.
RoomCoords == (-3)..3

\* The coordinates the model follows the solver to, for the host's maze m:
\* a solver that a chain of rejected moves has led further out is left there.
CoordRange(m) ==
    IF m \in RoomMazes THEN RoomCoords \X RoomCoords ELSE CoordXs \X CoordYs

\* ------------------------------------------------------------ the solver
VARIABLES
    maze,       \* the host's maze
    pos,        \* the host's cell of Icarus
    times,      \* viper.GetInt("times")
    x,          \* RunIcarus: the loop counter
    pc,         \* where the program stands
    inflight,   \* the requests sent and not yet answered
    s,          \* solveMaze: the survey in hand
    solver,     \* solveMaze: the solver (coord, junctions, horizPassages, vertPassages)
    w,          \* chooseDir: the threshold
    dir,        \* solveMaze: the direction chosen
    err,        \* solveMaze: the error moveDir returned
    fails,      \* the requests that failed at transport level so far
    sent,       \* history: the awake, move and done requests sent so far, and the last one
    replied,    \* history: the survey of the last awake or move reply
    hist        \* history: per passage, the moves requested, simulated and accepted;
                \* the cells stood on, relative to the start; the simulated steps in a row

vars == <<maze, pos, times, x, pc, inflight, s, solver, w, dir, err, fails, sent, replied, hist>>

\* The orderings rand.Perm(4) may return.
Perms4 ==
    {<<0, 1, 2, 3>>, <<0, 1, 3, 2>>, <<0, 2, 1, 3>>, <<0, 2, 3, 1>>, <<0, 3, 1, 2>>, <<0, 3, 2, 1>>,
     <<1, 0, 2, 3>>, <<1, 0, 3, 2>>, <<1, 2, 0, 3>>, <<1, 2, 3, 0>>, <<1, 3, 0, 2>>, <<1, 3, 2, 0>>,
     <<2, 0, 1, 3>>, <<2, 0, 3, 1>>, <<2, 1, 0, 3>>, <<2, 1, 3, 0>>, <<2, 3, 0, 1>>, <<2, 3, 1, 0>>,
     <<3, 0, 1, 2>>, <<3, 0, 2, 1>>, <<3, 1, 0, 2>>, <<3, 1, 2, 0>>, <<3, 2, 0, 1>>, <<3, 2, 1, 0>>}

\* WallOf with the flags of east and west taken for each other.
WallOf_swapped(sv, d) ==
    CASE d = N -> sv.Top
      [] d = S -> sv.Bottom
      [] d = E -> sv.Left
      [] d = W -> sv.Right

\* chooseDirWeighted: the wall flag of direction d.
WallOf(sv, d) ==
    CASE d = N -> sv.Top
      [] d = S -> sv.Bottom
      [] d = E -> sv.Right
      [] d = W -> sv.Left

\* PassageKey that keys the passage to the west by the cell itself.
PassageKey_own(sv, d) ==
    CASE d = N -> [map |-> "vert", key |-> <<sv.coord[1], sv.coord[2] - 1>>]
      [] d = S -> [map |-> "vert", key |-> sv.coord]
      [] d = E -> [map |-> "horiz", key |-> sv.coord]
      [] d = W -> [map |-> "horiz", key |-> sv.coord]

\* The map and the key of the passage solver sv crosses from its coordinate
\* in direction d: vertical passages are keyed by the upper cell, horizontal
\* ones by the left cell.
PassageKey(sv, d) ==
    CASE d = N -> [map |-> "vert", key |-> <<sv.coord[1], sv.coord[2] - 1>>]
      [] d = S -> [map |-> "vert", key |-> sv.coord]
      [] d = E -> [map |-> "horiz", key |-> sv.coord]
      [] d = W -> [map |-> "horiz", key |-> <<sv.coord[1] - 1, sv.coord[2]>>]

PassageMap(sv, name) == IF name = "vert" THEN sv.vertPassages ELSE sv.horizPassages

\* The counter of the passage in direction d.
PassageCount(sv, d) ==
    LET p == PassageKey(sv, d) IN Get(PassageMap(sv, p.map), p.key)

\* chooseDirWeighted without the test of the wall flag.
chooseDirWeighted_nowall(sol, sv, wt, perm) ==
    LET hits == {d \in 0..(Len(perm) - 1) : PassageCount(sol, d + 1) <= wt}
    IN IF hits = {}
       THEN [dir |-> 0, err |-> "not found"]
       ELSE [dir |-> 1 + (CHOOSE d \in hits : \A e \in hits : d <= e), err |-> "nil"]

\* chooseDirWeighted without the test of the passage counter.
chooseDirWeighted_nocount(sol, sv, wt, perm) ==
    LET hits == {d \in 0..(Len(perm) - 1) : ~WallOf(sv, d + 1)}
    IN IF hits = {}
       THEN [dir |-> 0, err |-> "not found"]
       ELSE [dir |-> 1 + (CHOOSE d \in hits : \A e \in hits : d <= e), err |-> "nil"]

\* chooseDirWeighted with the threshold off by one.
chooseDirWeighted_loose(sol, sv, wt, perm) ==
    LET hits == {d \in 0..(Len(perm) - 1) :
                    ~WallOf(sv, d + 1) /\ PassageCount(sol, d + 1) <= wt + 1}
    IN IF hits = {}
       THEN [dir |-> 0, err |-> "not found"]
       ELSE [dir |-> 1 + (CHOOSE d \in hits : \A e \in hits : d <= e), err |-> "nil"]

\* solver.chooseDirWeighted.  "for d := range rand.Perm(4)" ranges over the
\* indices of the permutation, 0 to 3 in order, not over its values.
chooseDirWeighted(sol, sv, wt, perm) ==
    LET hits == {d \in 0..(Len(perm) - 1) :
                    ~WallOf(sv, d + 1) /\ PassageCount(sol, d + 1) <= wt}
    IN IF hits = {}
       THEN [dir |-> 0, err |-> "not found"]
       ELSE [dir |-> 1 + (CHOOSE d \in hits : \A e \in hits : d <= e), err |-> "nil"]

DirStr(d) ==
    CASE d = N -> "up"
      [] d = S -> "down"
      [] d = E -> "right"
      [] d = W -> "left"

\* moveDir whose simulated step counts the passage once, not twice.
moveDir_inc1(sol, sv, d) ==
    LET newCoord == Neighbour(sol.coord, d)
        p == PassageKey(sol, d)
        cnt == Get(PassageMap(sol, p.map), p.key)
        bump(k) == IF p.map = "vert"
                   THEN [sol EXCEPT !.vertPassages = Put(@, p.key, cnt + k)]
                   ELSE [sol EXCEPT !.horizPassages = Put(@, p.key, cnt + k)]
    IN IF cnt = 0 /\ newCoord \in sol.junctions
       THEN [solver |-> bump(1), move |-> "", sv |-> sv, err |-> "nil"]
       ELSE [solver |-> [bump(1) EXCEPT !.coord = newCoord,
                                        !.junctions = @ \cup {newCoord}],
             move |-> DirStr(d), sv |-> sv, err |-> "nil"]

\* moveDir that counts a passage only the first time it is crossed.
moveDir_once(sol, sv, d) ==
    LET newCoord == Neighbour(sol.coord, d)
        p == PassageKey(sol, d)
        cnt == Get(PassageMap(sol, p.map), p.key)
        bump(k) == IF p.map = "vert"
                   THEN [sol EXCEPT !.vertPassages = Put(@, p.key, cnt + k)]
                   ELSE [sol EXCEPT !.horizPassages = Put(@, p.key, cnt + k)]
    IN IF cnt = 0 /\ newCoord \in sol.junctions
       THEN [solver |-> bump(2), move |-> "", sv |-> sv, err |-> "nil"]
       ELSE [solver |-> [bump(IF cnt = 0 THEN 1 ELSE 0) EXCEPT !.coord = newCoord,
                                        !.junctions = @ \cup {newCoord}],
             move |-> DirStr(d), sv |-> sv, err |-> "nil"]

\* moveDir that keeps the cell moved to as the only visited one.
moveDir_forget(sol, sv, d) ==
    LET newCoord == Neighbour(sol.coord, d)
        p == PassageKey(sol, d)
        cnt == Get(PassageMap(sol, p.map), p.key)
        bump(k) == IF p.map = "vert"
                   THEN [sol EXCEPT !.vertPassages = Put(@, p.key, cnt + k)]
                   ELSE [sol EXCEPT !.horizPassages = Put(@, p.key, cnt + k)]
    IN IF cnt = 0 /\ newCoord \in sol.junctions
       THEN [solver |-> bump(2), move |-> "", sv |-> sv, err |-> "nil"]
       ELSE [solver |-> [bump(1) EXCEPT !.coord = newCoord,
                                        !.junctions = {newCoord}],
             move |-> DirStr(d), sv |-> sv, err |-> "nil"]

\* moveDir that does not mark the cell moved to as visited.
moveDir_nomark(sol, sv, d) ==
    LET newCoord == Neighbour(sol.coord, d)
        p == PassageKey(sol, d)
        cnt == Get(PassageMap(sol, p.map), p.key)
        bump(k) == IF p.map = "vert"
                   THEN [sol EXCEPT !.vertPassages = Put(@, p.key, cnt + k)]
                   ELSE [sol EXCEPT !.horizPassages = Put(@, p.key, cnt + k)]
    IN IF cnt = 0 /\ newCoord \in sol.junctions
       THEN [solver |-> bump(2), move |-> "", sv |-> sv, err |-> "nil"]
       ELSE [solver |-> [bump(1) EXCEPT !.coord = newCoord,
                                        !.junctions = @],
             move |-> DirStr(d), sv |-> sv, err |-> "nil"]

\* moveDir whose simulated step leaves the counter of the passage as it is.
moveDir_nobump(sol, sv, d) ==
    LET newCoord == Neighbour(sol.coord, d)
        p == PassageKey(sol, d)
        cnt == Get(PassageMap(sol, p.map), p.key)
        bump(k) == IF p.map = "vert"
                   THEN [sol EXCEPT !.vertPassages = Put(@, p.key, cnt + k)]
                   ELSE [sol EXCEPT !.horizPassages = Put(@, p.key, cnt + k)]
    IN IF cnt = 0 /\ newCoord \in sol.junctions
       THEN [solver |-> bump(0), move |-> "", sv |-> sv, err |-> "nil"]
       ELSE [solver |-> [bump(1) EXCEPT !.coord = newCoord,
                                        !.junctions = @ \cup {newCoord}],
             move |-> DirStr(d), sv |-> sv, err |-> "nil"]

\* moveDir whose simulated step moves the coordinate to the visited cell.
moveDir_simmove(sol, sv, d) ==
    LET newCoord == Neighbour(sol.coord, d)
        p == PassageKey(sol, d)
        cnt == Get(PassageMap(sol, p.map), p.key)
        bump(k) == IF p.map = "vert"
                   THEN [sol EXCEPT !.vertPassages = Put(@, p.key, cnt + k)]
                   ELSE [sol EXCEPT !.horizPassages = Put(@, p.key, cnt + k)]
    IN IF cnt = 0 /\ newCoord \in sol.junctions
       THEN [solver |-> [bump(2) EXCEPT !.coord = newCoord], move |-> "", sv |-> sv, err |-> "nil"]
       ELSE [solver |-> [bump(1) EXCEPT !.coord = newCoord,
                                        !.junctions = @ \cup {newCoord}],
             move |-> DirStr(d), sv |-> sv, err |-> "nil"]

\* solver.moveDir up to the call of Move: the solver after the step and the
\* move to request; when the step is simulated nothing is sent (move is "")
\* and the survey passed in is returned with a nil error.
moveDir(sol, sv, d) ==
    LET newCoord == Neighbour(sol.coord, d)
        p == PassageKey(sol, d)
        cnt == Get(PassageMap(sol, p.map), p.key)
        bump(k) == IF p.map = "vert"
                   THEN [sol EXCEPT !.vertPassages = Put(@, p.key, cnt + k)]
                   ELSE [sol EXCEPT !.horizPassages = Put(@, p.key, cnt + k)]
    IN IF cnt = 0 /\ newCoord \in sol.junctions
       THEN [solver |-> bump(2), move |-> "", sv |-> sv, err |-> "nil"]
       ELSE [solver |-> [bump(1) EXCEPT !.coord = newCoord,
                                        !.junctions = @ \cup {newCoord}],
             move |-> DirStr(d), sv |-> sv, err |-> "nil"]

\* solveMaze: the solver as constructed, the origin marked visited.
NewSolver ==
    [coord |-> <<0, 0>>, junctions |-> {<<0, 0>>},
     horizPassages |-> EmptyMap, vertPassages |-> EmptyMap]

NoHist ==
    [req |-> EmptyMap, sim |-> EmptyMap, acc |-> EmptyMap, last |-> <<>>,
     stood |-> {<<0, 0>>}, run |-> 0]

\* The host's cell c as a coordinate relative to the start cell of maze m.
Rel(m, c) == <<c[1] - m.start[1], c[2] - m.start[2]>>

Init ==
    /\ maze \in Mazes
    /\ pos = maze.start
    /\ times \in 0..MaxTimes
    /\ x = 0
    /\ pc = "loop"
    /\ inflight = {}
    /\ s = ZeroSurvey
    /\ solver = NewSolver
    /\ w = 0
    /\ dir = 0
    /\ err = "nil"
    /\ fails = 0
    /\ sent = [awake |-> 0, move |-> 0, done |-> 0, last |-> ""]
    /\ replied = ZeroSurvey
    /\ hist = NoHist

\* RunIcarus: x < times, solveMaze is called and sends the awake request.
StartAttempt ==
    /\ pc = "loop"
    /\ x < times
    /\ pc' = "awake"
    /\ inflight' = inflight \cup {"awake"}
    /\ sent' = [sent EXCEPT !.awake = @ + 1, !.move = 0, !.last = "awake"]
    /\ UNCHANGED <<maze, pos, times, x, s, solver, w, dir, err, fails, replied, hist>>

\* Awoken that leaves the awake request outstanding.
Awoken_keep(sv) ==
    /\ pc' = "choose"
    /\ inflight' = inflight
    /\ s' = sv
    /\ replied' = sv
    /\ solver' = NewSolver
    /\ w' = 0
    /\ dir' = 0
    /\ err' = "nil"
    /\ hist' = NoHist

\* Awoken with the solver of the attempt before.
Awoken_stale(sv) ==
    /\ pc' = "choose"
    /\ inflight' = inflight \ {"awake"}
    /\ s' = sv
    /\ replied' = sv
    /\ solver' = solver
    /\ w' = 0
    /\ dir' = 0
    /\ err' = "nil"
    /\ hist' = NoHist

\* solveMaze after awake returned survey sv.
Awoken(sv) ==
    /\ pc' = "choose"
    /\ inflight' = inflight \ {"awake"}
    /\ s' = sv
    /\ replied' = sv
    /\ solver' = NewSolver
    /\ w' = 0
    /\ dir' = 0
    /\ err' = "nil"
    /\ hist' = NoHist

\* The host answers awake: Icarus is put on the start cell.
AwakeReply ==
    /\ pc = "awake"
    /\ pos' = maze.start
    /\ Awoken(LookAround(maze, maze.start))
    /\ UNCHANGED <<maze, times, x, fails, sent>>

\* The answer to awake is lost or cannot be decoded: awake prints the error
\* and returns the survey of the zero Reply.
AwakeFail ==
    /\ pc = "awake"
    /\ fails < MaxFail
    /\ fails' = fails + 1
    /\ pos' = maze.start
    /\ Awoken(ZeroSurvey)
    /\ UNCHANGED <<maze, times, x, sent>>

\* chooseDir: one round of its loop over w.
ChooseStep ==
    /\ pc = "choose"
    /\ \E r \in {chooseDirWeighted(solver, s, w, perm) : perm \in Perms4} :
            IF r.err = "nil"
            THEN /\ dir' = r.dir
                 /\ pc' = "move"
                 /\ w' = w
            ELSE /\ w' = Inc(w)
                 /\ UNCHANGED <<dir, pc>>
    /\ UNCHANGED <<maze, pos, times, x, inflight, s, solver, err, fails, sent, replied, hist>>

\* The history of the passage crossed in direction d from solver sol.
Edge(sol, d) == LET p == PassageKey(sol, d) IN <<p.map, p.key>>

\* solveMaze calls moveDir(s, dir): a simulated step returns at once, any
\* other sends the move request.
MoveDir ==
    /\ pc = "move"
    /\ Neighbour(solver.coord, dir) \in CoordRange(maze)
    /\ PassageCount(solver, dir) < MaxCount
    /\ LET r == moveDir(solver, s, dir)
           e == Edge(solver, dir)
       IN /\ solver' = r.solver
          /\ IF r.move = ""
             THEN /\ pc' = "choose"
                  /\ w' = 0
                  /\ s' = r.sv
                  /\ err' = r.err
                  /\ hist' = [hist EXCEPT !.sim = Put(@, e, Get(@, e) + 1), !.run = @ + 1]
                  /\ UNCHANGED <<inflight, sent>>
             ELSE /\ pc' = "moving"
                  /\ inflight' = inflight \cup {r.move}
                  /\ sent' = [sent EXCEPT !.move = @ + 1, !.last = r.move]
                  /\ hist' = [hist EXCEPT !.req = Put(@, e, Get(@, e) + 1), !.last = e,
                                           !.run = 0]
                  /\ UNCHANGED <<w, s, err>>
    /\ UNCHANGED <<maze, pos, times, x, dir, fails, replied>>

\* Moved without the return on victory.
Moved_goon(sv, e) ==
    /\ inflight' = inflight \ {DirStr(dir)}
    /\ s' = sv
    /\ replied' = sv
    /\ err' = e
    /\ w' = 0
    /\ pc' = "choose"
    /\ x' = x

\* solveMaze after moveDir returned (sv, e) from Move.
Moved(sv, e) ==
    /\ inflight' = inflight \ {DirStr(dir)}
    /\ s' = sv
    /\ replied' = sv
    /\ err' = e
    /\ w' = 0
    /\ IF e = "ErrVictory"
       THEN pc' = "loop" /\ x' = x + 1
       ELSE pc' = "choose" /\ x' = x

\* The host moves Icarus through an open passage and reports the new cell,
\* or the victory when that cell is the exit.
MoveAccept ==
    /\ pc = "moving"
    /\ Open(maze, pos, dir)
    /\ pos' = Neighbour(pos, dir)
    /\ Moved(LookAround(maze, pos'), IF pos' = maze.exit THEN "ErrVictory" ELSE "msg:")
    /\ hist' = [hist EXCEPT !.acc = Put(@, hist.last, Get(@, hist.last) + 1),
                             !.stood = @ \cup {Rel(maze, pos')}]
    /\ UNCHANGED <<maze, times, solver, dir, fails, sent>>

\* The host rejects a move into a wall: Victory is false, the message tells
\* why and the reply carries no survey.
MoveReject ==
    /\ pc = "moving"
    /\ ~Open(maze, pos, dir)
    /\ Moved(ZeroSurvey, "msg:wall")
    /\ UNCHANGED <<maze, pos, times, solver, dir, fails, hist, sent>>

\* MoveFail that returns the survey passed in.
MoveFail_stale ==
    /\ pc = "moving"
    /\ fails < MaxFail
    /\ fails' = fails + 1
    /\ \E e \in {"transport", "msg:"} : Moved(s, e)
    /\ UNCHANGED <<maze, pos, times, solver, dir, hist, sent>>

\* The move request fails at transport level: Move returns the zero survey
\* and the error; or the body of the reply is not JSON: ToReply leaves the
\* zero Reply and Move returns its survey and an error of the empty message.
MoveFail ==
    /\ pc = "moving"
    /\ fails < MaxFail
    /\ fails' = fails + 1
    /\ \E e \in {"transport", "msg:"} : Moved(ZeroSurvey, e)
    /\ UNCHANGED <<maze, pos, times, solver, dir, hist, sent>>

\* AnnounceDone inside the loop: done is sent after every attempt.
AnnounceDone_early ==
    /\ pc = "loop"
    /\ x > 0 \/ times = 0
    /\ sent.last # "done"
    /\ pc' = "done"
    /\ inflight' = inflight \cup {"done"}
    /\ sent' = [sent EXCEPT !.done = @ + 1, !.last = "done"]
    /\ UNCHANGED <<maze, pos, times, x, s, solver, w, dir, err, fails, replied, hist>>

\* RunIcarus: the loop is over, the done request is sent.
AnnounceDone ==
    /\ pc = "loop"
    /\ ~(x < times)
    /\ pc' = "done"
    /\ inflight' = inflight \cup {"done"}
    /\ sent' = [sent EXCEPT !.done = @ + 1, !.last = "done"]
    /\ UNCHANGED <<maze, pos, times, x, s, solver, w, dir, err, fails, replied, hist>>

\* makeRequest returns, whatever the outcome, and RunIcarus returns.
DoneReply ==
    /\ pc = "done"
    /\ pc' = "end"
    /\ inflight' = inflight \ {"done"}
    /\ UNCHANGED <<maze, pos, times, x, s, solver, w, dir, err, fails, sent, replied, hist>>

Next ==
    \/ StartAttempt
    \/ AwakeReply
    \/ AwakeFail
    \/ ChooseStep
    \/ MoveDir
    \/ MoveAccept
    \/ MoveReject
    \/ MoveFail
    \/ AnnounceDone
    \/ DoneReply

Spec == Init /\ [][Next]_vars

\* The program is one sequential thread and the host answers every request:
\* a step that can be taken is taken.
FairSpec == Init /\ [][Next]_vars /\ WF_vars(Next)

\* A host that never fails, with a maze in which every cell has an open
\* direction and the exit can be reached from the start.
LiveInit == Init /\ GoodMaze(maze)

LiveNext ==
    \/ StartAttempt
    \/ AwakeReply
    \/ ChooseStep
    \/ MoveDir
    \/ MoveAccept
    \/ AnnounceDone
    \/ DoneReply

LiveSpec == LiveInit /\ [][LiveNext]_vars /\ WF_vars(LiveNext)

\* The program against the host of a room instead of a two-row grid.
RoomInit ==
    /\ maze \in RoomMazes
    /\ pos = maze.start
    /\ times \in 0..MaxTimes
    /\ x = 0
    /\ pc = "loop"
    /\ inflight = {}
    /\ s = ZeroSurvey
    /\ solver = NewSolver
    /\ w = 0
    /\ dir = 0
    /\ err = "nil"
    /\ fails = 0
    /\ sent = [awake |-> 0, move |-> 0, done |-> 0, last |-> ""]
    /\ replied = ZeroSurvey
    /\ hist = NoHist

RoomSpec == RoomInit /\ [][Next]_vars

\* ---------------------------------------------------------- properties
Moves == {"up", "down", "left", "right"}
InAttempt == pc \in {"choose", "move", "moving"}
FullyWalled(sv) == sv.Top /\ sv.Right /\ sv.Bottom /\ sv.Left

\* The passages the solver or the history knows, as <<map, key>>.
KnownEdges ==
    {<<"vert", k>> : k \in DOMAIN solver.vertPassages}
        \cup {<<"horiz", k>> : k \in DOMAIN solver.horizPassages}
        \cup DOMAIN hist.req \cup DOMAIN hist.sim \cup DOMAIN hist.acc
Counter(e) == Get(PassageMap(solver, e[1]), e[2])

\* C1: the direction chooseDir returned, and the move requested for it, is
\* one whose wall flag is false in the survey in hand, and that survey is
\* the one of the last awake or move reply.
C1_OpenDirection ==
    /\ pc \in {"move", "moving"} => dir \in N..W /\ ~WallOf(s, dir)
    /\ \A m \in inflight \cap Moves : m = DirStr(dir) /\ ~WallOf(s, dir)
    /\ InAttempt => s = replied

\* C1 witness: a move is requested from a cell with walls, after a simulated
\* step kept the survey and with passages already counted.
C1_Witness ==
    /\ pc = "moving"
    /\ s.Top /\ s.Left
    /\ DOMAIN hist.sim # {}
    /\ sent.move >= 4

\* C2: with a host that never fails and a maze in which every cell has an
\* open direction and the exit can be reached, every attempt gets its victory.
C2_Victory == [](InAttempt => <>(err = "ErrVictory"))

\* C2 witness: victory after a walk with a simulated dead-end step in the
\* second attempt of a run.
C2_Witness ==
    /\ err = "ErrVictory"
    /\ x = 2
    /\ DOMAIN hist.sim # {}
    /\ sent.move >= 4

\* C3: the direction chooseDir returned has the least counter among the
\* directions the survey shows open.
C3_LeastCounter ==
    pc = "move" =>
        \A d \in N..W : ~WallOf(s, d) => PassageCount(solver, dir) <= PassageCount(solver, d)

\* C3 witness: an open passage never crossed is chosen although a direction
\* tested before it is open with a positive counter.
C3_Witness ==
    /\ pc = "move"
    /\ PassageCount(solver, dir) = 0
    /\ \E d \in N..W : d < dir /\ ~WallOf(s, d) /\ PassageCount(solver, d) > 0

\* C4: moveDir on a passage with counter 0 into a visited cell adds 2 to the
\* counter and sends nothing; any other moveDir adds 1 and sends one move.
C4_DeadEnd ==
    [][pc = "move" /\ pc' # "move" =>
        LET p == PassageKey(solver, dir)
            cnt == PassageCount(solver, dir)
            after == Get(PassageMap(solver', p.map), p.key)
        IN IF cnt = 0 /\ Neighbour(solver.coord, dir) \in solver.junctions
           THEN /\ after = cnt + 2
                /\ sent' = sent
                /\ inflight' = inflight
           ELSE /\ after = cnt + 1
                /\ sent'.move = sent.move + 1
                /\ sent'.last = DirStr(dir)
                /\ inflight = {}
                /\ inflight' = {DirStr(dir)}]_vars

\* C4 witness: a simulated step was taken and a move is being requested.
C4_Witness ==
    /\ pc = "moving"
    /\ \E e \in DOMAIN hist.sim : Counter(e) = 2 /\ Get(hist.req, e) = 0

\* C5: after a victory reply there is no decision step and no move request
\* until the next attempt is woken; the next request is awake or done.
C5_VictoryEnds ==
    [][/\ err' = "ErrVictory" => pc' \in {"loop", "awake", "done", "end"} /\ inflight' \cap Moves = {}
       /\ err = "ErrVictory" /\ sent' # sent => sent'.last \in {"awake", "done"}]_vars

\* C5 witness: the awake of the second attempt is outstanding after the
\* victory of the first, which left passages of its cell uncrossed.
C5_Witness ==
    /\ err = "ErrVictory"
    /\ pc = "awake"
    /\ x = 1
    /\ \E d \in N..W : ~WallOf(s, d) /\ PassageCount(solver, d) = 0

\* C6 (as claimed): in a fully walled cell chooseDir comes to an end.
C6_WalledCellAborts == [](pc = "choose" /\ FullyWalled(s) => <>(pc # "choose"))

\* C7 (as claimed): the direction chosen after a rejected move is another
\* one than the direction rejected.
C7_RejectedNotRetried ==
    [][err = "msg:wall" /\ pc = "choose" /\ pc' = "move" => dir' # dir]_vars

\* C8: done is sent once, when every configured attempt has ended (the last
\* one by a victory), and it is the last request of the run.
C8_DoneOnce ==
    /\ sent.done <= 1
    /\ sent.done = 1 <=> pc \in {"done", "end"}
    /\ sent.done = 1 =>
          /\ x = times
          /\ sent.awake = times
          /\ sent.last = "done"
          /\ times > 0 => err = "ErrVictory"

\* C8 witness: a run of two attempts has ended.
C8_Witness == pc = "end" /\ times = 2 /\ sent.done = 1

\* C9: at most one request is outstanding; the awake requests sent are as
\* many as the attempts started; a move follows the awake or a move of its
\* own attempt, once answered; awake and done follow nothing or a move.
C9_RequestOrder ==
    [][/\ Cardinality(inflight') <= 1
       /\ sent'.awake = x' + (IF pc' \in {"awake", "choose", "move", "moving"} THEN 1 ELSE 0)
       /\ sent' # sent =>
            /\ inflight = {}
            /\ inflight' = {sent'.last}
            /\ sent'.last \in Moves =>
                  sent.last \in Moves \cup {"awake"} /\ sent'.awake = sent.awake
            /\ sent'.last = "awake" =>
                  sent.last \in Moves \cup {""} /\ sent'.awake = sent.awake + 1
            /\ sent'.last = "done" =>
                  sent.last \in Moves \cup {""} /\ sent'.awake = sent.awake]_vars

\* C9 witness: the second attempt is at its second move.
C9_Witness == pc = "moving" /\ x = 1 /\ sent.awake = 2 /\ sent.move = 2

\* C10 (as claimed): at a decision step the counter of every passage is the
\* number of accepted moves through it.
C10_CounterIsTraversals ==
    pc = "choose" => \A e \in KnownEdges : Counter(e) = Get(hist.acc, e)

\* C10 (amended): the counter of every passage is the number of move
\* requests sent for it plus 2 for the simulated step on it, of which there
\* is at most one; the accepted moves are at most the requests.
C10_CounterIsRequests ==
    \A e \in KnownEdges :
        /\ Counter(e) = Get(hist.req, e) + 2 * Get(hist.sim, e)
        /\ Get(hist.sim, e) <= 1
        /\ Get(hist.acc, e) <= Get(hist.req, e)

\* C10 witness: a decision step after a simulated step on one passage and a
\* move that was requested and not accepted on another.
C10_Witness ==
    /\ pc = "choose"
    /\ \E e \in KnownEdges : Get(hist.sim, e) = 1
    /\ \E e \in KnownEdges : Get(hist.req, e) > Get(hist.acc, e)

\* C11 (as claimed): at a decision step the visited set is the set of the
\* cells Icarus stood on, relative to the start cell.
C11_VisitedIsStoodOn == pc = "choose" => solver.junctions = hist.stood

\* C12: within an attempt no step lowers a passage counter or takes a
\* coordinate out of the visited set.
C12_OnlyGrows ==
    [][InAttempt /\ InAttempt' =>
        /\ solver.junctions \subseteq solver'.junctions
        /\ \A k \in DOMAIN solver.horizPassages :
              Get(solver'.horizPassages, k) >= solver.horizPassages[k]
        /\ \A k \in DOMAIN solver.vertPassages :
              Get(solver'.vertPassages, k) >= solver.vertPassages[k]]_vars

\* C12 witness: a decision step after a rejected move, with three cells
\* visited and a passage counted twice or more.
C12_Witness ==
    /\ pc = "choose"
    /\ err = "msg:wall"
    /\ Cardinality(solver.junctions) >= 3
    /\ \E e \in KnownEdges : Counter(e) >= 2

\* C13: at the first decision step of an attempt the solver is at (0,0),
\* has visited (0,0) alone and has counted no passage.
C13_FreshSolver ==
    pc = "choose" /\ sent.move = 0 =>
        /\ solver.coord = <<0, 0>>
        /\ solver.junctions = {<<0, 0>>}
        /\ \A k \in DOMAIN solver.horizPassages : solver.horizPassages[k] = 0
        /\ \A k \in DOMAIN solver.vertPassages : solver.vertPassages[k] = 0

\* C13 witness: the first decision step of the second attempt.
C13_Witness == pc = "choose" /\ sent.move = 0 /\ x = 1 /\ sent.awake = 2

OpenDirs(sv) == {d \in N..W : ~WallOf(sv, d)}
TopOnly == [Top |-> FALSE, Right |-> TRUE, Bottom |-> TRUE, Left |-> TRUE]

\* The survey whose only flag that is false is the one of direction d.
SoleOpen(d) ==
    [Top |-> d # N, Right |-> d # E, Bottom |-> d # S, Left |-> d # W]

\* C14: with one open direction in the survey, chooseDir widens w no
\* further than the counter of that passage and returns that direction; at
\* the origin with the top alone open the move requested is "up".
C14_SingleOpenDirection ==
    /\ pc = "choose" =>
          \A d \in N..W : s = SoleOpen(d) => 0 <= w /\ w <= PassageCount(solver, d)
    /\ pc = "move" => \A d \in N..W : s = SoleOpen(d) => dir = d
    /\ pc = "moving" /\ sent.move = 1 /\ s = TopOnly => inflight = {"up"}

\* C14 witness: the single open direction is chosen with its passage
\* already counted, after directions tested before it were found walled.
C14_Witness ==
    /\ pc = "move"
    /\ s = SoleOpen(dir)
    /\ dir > N
    /\ PassageCount(solver, dir) > 0

\* C15: after an awake or a move that failed, the survey in hand has no
\* wall, the error is not the victory and the attempt goes on with a
\* decision step.
C15_FailureGoesOn ==
    [][fails' # fails =>
        /\ s' = ZeroSurvey
        /\ err' # "ErrVictory"
        /\ pc' = "choose"
        /\ x' = x
        /\ solver'.coord \in solver'.junctions]_vars

\* C15 witness: a decision step after a move whose reply was not JSON, sent
\* from a cell whose survey had walls.
C15_Witness ==
    /\ pc = "choose"
    /\ err = "msg:"
    /\ LookAround(maze, pos) # ZeroSurvey
    /\ fails = 1
    /\ s = ZeroSurvey
    /\ sent.move >= 1

\* The least counter among the open directions, and the directions that tie for it.
Tied(sol, sv) ==
    {d \in OpenDirs(sv) : \A e \in OpenDirs(sv) : PassageCount(sol, d) <= PassageCount(sol, e)}

\* C16 (as claimed): every open direction that ties for the least counter
\* is returned by chooseDirWeighted for some ordering rand.Perm(4) returns.
C16_EveryTiedDirection ==
    pc = "choose" =>
        \A d \in Tied(solver, s) :
            \E perm \in Perms4 :
                chooseDirWeighted(solver, s, PassageCount(solver, d), perm).dir = d

\* C17: when a move is requested the solver is already on the target cell,
\* the cell is visited and the passage is counted once more; no reply
\* changes the solver.
C17_UpdateBeforeRequest ==
    [][/\ sent'.move = sent.move + 1 =>
            LET p == PassageKey(solver, dir)
            IN /\ solver'.coord = Neighbour(solver.coord, dir)
               /\ solver'.coord \in solver'.junctions
               /\ Get(PassageMap(solver', p.map), p.key) = PassageCount(solver, dir) + 1
       /\ pc = "moving" => solver' = solver]_vars

\* C17 witness: a decision step after a rejected move: the solver stands on
\* a cell Icarus never stood on.
C17_Witness ==
    /\ pc = "choose"
    /\ err = "msg:wall"
    /\ solver.coord \notin hist.stood
    /\ solver.coord \in solver.junctions

Opposite(d) ==
    CASE d = N -> S
      [] d = S -> N
      [] d = E -> W
      [] d = W -> E

\* C18: with a host that accepts every move the solver's coordinate is the
\* host's cell relative to the start (the target cell while a move is
\* outstanding), and a passage has the same key from both its sides.
C18_PositionTracked ==
    /\ pc \in {"choose", "move"} => solver.coord = Rel(maze, pos)
    /\ pc = "moving" => solver.coord = Rel(maze, Neighbour(pos, dir))
    /\ InAttempt =>
          \A d \in N..W :
              PassageKey(solver, d)
                 = PassageKey([solver EXCEPT !.coord = Neighbour(solver.coord, d)], Opposite(d))

\* C18 witness: Icarus is back on a cell through the passage he left it by,
\* which is counted twice under one key.
C18_Witness ==
    /\ pc = "choose"
    /\ pos # maze.start
    /\ \E e \in KnownEdges : Counter(e) = 2 /\ Get(hist.acc, e) = 2

\* C19: no more than 4 simulated steps are taken in a row: a passage is
\* simulated once at most, and the simulated steps of a run are on passages
\* of the cell the solver stays on, each left with a counter of 2 or more.
C19_SimulatedStepsBounded ==
    /\ hist.run <= 4
    /\ \A e \in DOMAIN hist.sim : hist.sim[e] <= 1
    /\ pc \in {"choose", "move"} =>
          hist.run <= Cardinality({d \in N..W : PassageCount(solver, d) >= 2})

\* C19 witness: after three simulated steps in a row in one cell the
\* direction chosen next is one a move is requested for.
C19_Witness ==
    /\ pc = "move"
    /\ hist.run = 3
    /\ OpenDirs(s) # {}
    /\ ~(PassageCount(solver, dir) = 0 /\ Neighbour(solver.coord, dir) \in solver.junctions)

\* C20: a simulated step changes the counter of its passage and nothing
\* else of the solver, returns the survey passed in and no error.
C20_SimulatedStepFrame ==
    [][pc = "move" /\ sent' = sent /\ pc' # "move" =>
        LET p == PassageKey(solver, dir)
        IN /\ solver'.coord = solver.coord
           /\ solver'.junctions = solver.junctions
           /\ s' = s
           /\ err' = "nil"
           /\ \A k \in DOMAIN solver'.horizPassages \cup DOMAIN solver.horizPassages :
                 (p.map = "horiz" /\ p.key = k)
                    \/ Get(solver'.horizPassages, k) = Get(solver.horizPassages, k)
           /\ \A k \in DOMAIN solver'.vertPassages \cup DOMAIN solver.vertPassages :
                 (p.map = "vert" /\ p.key = k)
                    \/ Get(solver'.vertPassages, k) = Get(solver.vertPassages, k)]_vars

\* C20 witness: a decision step right after a simulated step that followed
\* a move whose reply carried an error.
C20_Witness ==
    /\ pc = "choose"
    /\ hist.run = 1
    /\ err = "nil"
    /\ sent.move >= 3
    /\ Cardinality(DOMAIN solver.horizPassages) + Cardinality(DOMAIN solver.vertPassages) >= 3

====
